---- MODULE Spec2Model ----
(***************************************************************************)
(* Model of "Custom Classes/rectangle.py": the Rectangle class, its        *)
(* validating constructor, its generator-based __iter__ and its __repr__.  *)
(*                                                                         *)
(* A Python value is a record [type, val]. "int" values carry their        *)
(* number; a "bool" carries 0 (False) or 1 (True) and, as in Python, is an *)
(* instance of int; a "float" f stands for the float f.0; a "str" stands   *)
(* for the text spelling val. An instance's attributes (its __dict__) are  *)
(* a function from attribute names to values.                              *)
(***************************************************************************)
EXTENDS Integers, Sequences, FiniteSets, TLC

(* Bounds of the model. *)
MaxVal == 2
MaxIters == 3
MaxAdvance == 4

VARIABLES
    rect,    \* attributes of the instance the caller holds (rect = Rectangle(..))
    ctor,    \* <<l, w>>: the arguments rect was constructed with; <<>> while unbound
    iters,   \* the generators begun on rect, in the order they were begun
    last     \* the most recent call: operation, arguments, outcome

vars == <<rect, ctor, iters, last>>

(* ---------------------------- Python values ---------------------------- *)

PyInt(n) == [type |-> "int", val |-> n]
PyBool(b) == [type |-> "bool", val |-> b]
PyFloat(n) == [type |-> "float", val |-> n]
PyStr(n) == [type |-> "str", val |-> n]

Values ==
    {PyInt(n) : n \in -1..MaxVal} \cup {PyBool(b) : b \in {0, 1}}
        \cup {PyFloat(n) : n \in {0, 1}} \cup {PyStr(1)}

EmptyDict == [n \in {} |-> PyInt(0)]

setattr(d, name, v) ==
    [n \in DOMAIN d \cup {name} |-> IF n = name THEN v ELSE d[n]]

(* isinstance(v, int): bool is a subclass of int. *)
isinstance_int(v) == v.type \in {"int", "bool"}

(* Faulty variant of le_zero: the comparison written v < 0, so that 0 passes. *)
le_zero_strict(v) ==
    IF v.type \in {"int", "bool", "float"}
    THEN (IF v.val < 0 THEN "true" ELSE "false")
    ELSE "TypeError"

(* v <= 0: "true" or "false" for numbers, a TypeError for text. *)
le_zero(v) ==
    IF v.type \in {"int", "bool", "float"}
    THEN (IF v.val <= 0 THEN "true" ELSE "false")
    ELSE "TypeError"

(* str(v), as the f-string of __repr__ formats an attribute. *)
str(v) ==
    CASE v.type = "int" -> ToString(v.val)
      [] v.type = "bool" -> (IF v.val = 1 THEN "True" ELSE "False")
      [] v.type = "float" -> ToString(v.val) \o ".0"
      [] OTHER -> ToString(v.val)

(* ------------------------- Rectangle.__init__ -------------------------- *)

(* Faulty variant of Rectangle_init: the positivity check placed before the type   *)
(* check.                                                                  *)
Rectangle_init_value_first(self, length, width) ==
    IF le_zero(length) = "TypeError"
          \/ (le_zero(length) = "false" /\ le_zero(width) = "TypeError")
    THEN [raised |-> "TypeError", self |-> self]
    ELSE IF le_zero(length) = "true" \/ le_zero(width) = "true"
    THEN [raised |-> "ValueError", self |-> self]
    ELSE IF ~isinstance_int(length) \/ ~isinstance_int(width)
    THEN [raised |-> "TypeError", self |-> self]
    ELSE [raised |-> "none",
          self |-> setattr(setattr(self, "length", length), "width", width)]

(* Faulty variant of Rectangle_init: the positivity check joined with "and", so    *)
(* that it rejects only when both arguments are <= 0.                      *)
Rectangle_init_and(self, length, width) ==
    IF ~isinstance_int(length) \/ ~isinstance_int(width)
    THEN [raised |-> "TypeError", self |-> self]
    ELSE IF le_zero(length) = "true" /\ le_zero(width) = "true"
    THEN [raised |-> "ValueError", self |-> self]
    ELSE [raised |-> "none",
          self |-> setattr(setattr(self, "length", length), "width", width)]

(* Faulty variant of Rectangle_init: each argument validated and stored in turn,   *)
(* so that length is already stored when width is rejected.                *)
Rectangle_init_partial(self, length, width) ==
    IF ~isinstance_int(length)
    THEN [raised |-> "TypeError", self |-> self]
    ELSE IF le_zero(length) = "true"
    THEN [raised |-> "ValueError", self |-> self]
    ELSE IF ~isinstance_int(width)
    THEN [raised |-> "TypeError", self |-> setattr(self, "length", length)]
    ELSE IF le_zero(width) = "true"
    THEN [raised |-> "ValueError", self |-> setattr(self, "length", length)]
    ELSE [raised |-> "none",
          self |-> setattr(setattr(self, "length", length), "width", width)]

Rectangle_init(self, length, width) ==
    IF ~isinstance_int(length) \/ ~isinstance_int(width)
    THEN [raised |-> "TypeError", self |-> self]
    ELSE IF le_zero(length) = "TypeError"
              \/ (le_zero(length) = "false" /\ le_zero(width) = "TypeError")
    THEN [raised |-> "TypeError", self |-> self]
    ELSE IF le_zero(length) = "true" \/ le_zero(width) = "true"
    THEN [raised |-> "ValueError", self |-> self]
    ELSE [raised |-> "none",
          self |-> setattr(setattr(self, "length", length), "width", width)]

(* ------------------------- Rectangle.__iter__ -------------------------- *)

Yield(item) == [kind |-> "yield", item |-> item]
Raise(exc) == [kind |-> exc, item |-> EmptyDict]

(* Faulty variant of Rectangle_iter: the instance keeps one cursor, so a traversal  *)
(* begun later resumes where the one begun before it stands.               *)
Rectangle_iter_cached(self) ==
    [pc |-> IF iters = <<>> THEN "start" ELSE iters[Len(iters)].pc,
     trace |-> <<>>]

(* Calling __iter__ runs none of the body: it returns a generator          *)
(* suspended before the first statement.                                   *)
Rectangle_iter(self) == [pc |-> "start", trace |-> <<>>]

(* Faulty variant of gen_next: the two yield statements in the other order. *)
gen_next_swapped(g, self) ==
    CASE g.pc = "start" ->
            [pc |-> "y1", ev |-> Yield("width" :> self["width"]), self |-> self]
      [] g.pc = "y1" ->
            [pc |-> "y2", ev |-> Yield("length" :> self["length"]), self |-> self]
      [] OTHER -> [pc |-> "done", ev |-> Raise("StopIteration"), self |-> self]

(* Faulty variant of gen_next: the two yields inside an endless loop. *)
gen_next_loop(g, self) ==
    CASE g.pc \in {"start", "y2"} ->
            [pc |-> "y1", ev |-> Yield("length" :> self["length"]), self |-> self]
      [] g.pc = "y1" ->
            [pc |-> "y2", ev |-> Yield("width" :> self["width"]), self |-> self]
      [] OTHER -> [pc |-> "done", ev |-> Raise("StopIteration"), self |-> self]

(* Faulty variant of gen_next: the body swaps the two attributes after the first   *)
(* yield.                                                                  *)
gen_next_swapping(g, self) ==
    CASE g.pc = "start" ->
            [pc |-> "y1", ev |-> Yield("length" :> self["length"]), self |-> self]
      [] g.pc = "y1" ->
            [pc |-> "y2", ev |-> Yield("width" :> self["length"]),
             self |-> [length |-> self["width"], width |-> self["length"]]]
      [] OTHER -> [pc |-> "done", ev |-> Raise("StopIteration"), self |-> self]

(* Faulty variant of gen_next: the position is a cursor kept on the instance and   *)
(* shared by all its iterators (the number of advances made so far).       *)
RECURSIVE Advances(_)
Advances(n) == IF n = 0 THEN 0 ELSE Len(iters[n].trace) + Advances(n - 1)

gen_next_shared(g, self) ==
    CASE Advances(Len(iters)) = 0 ->
            [pc |-> "y1", ev |-> Yield("length" :> self["length"]), self |-> self]
      [] Advances(Len(iters)) = 1 ->
            [pc |-> "y2", ev |-> Yield("width" :> self["width"]), self |-> self]
      [] OTHER -> [pc |-> "done", ev |-> Raise("StopIteration"), self |-> self]

(* One next() on generator g: the body runs from where it was suspended to *)
(* the next yield, or to its end.                                          *)
gen_next(g, self) ==
    CASE g.pc = "start" ->
            IF "length" \in DOMAIN self
            THEN [pc |-> "y1", ev |-> Yield("length" :> self["length"]), self |-> self]
            ELSE [pc |-> "done", ev |-> Raise("AttributeError"), self |-> self]
      [] g.pc = "y1" ->
            IF "width" \in DOMAIN self
            THEN [pc |-> "y2", ev |-> Yield("width" :> self["width"]), self |-> self]
            ELSE [pc |-> "done", ev |-> Raise("AttributeError"), self |-> self]
      [] OTHER -> [pc |-> "done", ev |-> Raise("StopIteration"), self |-> self]

(* ------------------------- Rectangle.__repr__ -------------------------- *)

(* Faulty variant of Rectangle_repr: the text built with "+" instead of an         *)
(* f-string, which raises TypeError on an int attribute.                   *)
Rectangle_repr_concat(self) ==
    IF {"length", "width"} \subseteq DOMAIN self
    THEN (IF self["length"].type = "str" /\ self["width"].type = "str"
          THEN [raised |-> "none",
                text |-> "Rectangle(length=" \o str(self["length"]) \o ", width="
                            \o str(self["width"]) \o ")"]
          ELSE [raised |-> "TypeError", text |-> ""])
    ELSE [raised |-> "AttributeError", text |-> ""]

Rectangle_repr(self) ==
    IF {"length", "width"} \subseteq DOMAIN self
    THEN [raised |-> "none",
          text |-> "Rectangle(length=" \o str(self["length"]) \o ", width="
                      \o str(self["width"]) \o ")"]
    ELSE [raised |-> "AttributeError", text |-> ""]

(* ------------------------------ The calls ------------------------------ *)

Call(op, l, w, raised, self, it, text) ==
    [op |-> op, l |-> l, w |-> w, raised |-> raised, self |-> self,
     it |-> it, text |-> text]

NoArg == PyInt(0)

bound == ctor # <<>>

Init ==
    /\ rect = EmptyDict
    /\ ctor = <<>>
    /\ iters = <<>>
    /\ last = Call("none", NoArg, NoArg, "none", EmptyDict, 0, "")

(* rect = Rectangle(l, w), by a caller that holds no instance yet:         *)
(* __init__ runs on a fresh, attribute-less object. When it returns        *)
(* normally the caller holds the instance as rect; when it raises, the     *)
(* caller gets nothing.                                                    *)
Construct(l, w) ==
    /\ ~bound
    /\ LET r == Rectangle_init(EmptyDict, l, w) IN
        /\ last' = Call("init", l, w, r.raised, r.self, 0, "")
        /\ IF r.raised = "none"
           THEN rect' = r.self /\ ctor' = <<l, w>>
           ELSE UNCHANGED <<rect, ctor>>
    /\ UNCHANGED iters

(* iter(rect): a new generator. *)
BeginIter ==
    /\ bound
    /\ Len(iters) < MaxIters
    /\ iters' = Append(iters, Rectangle_iter(rect))
    /\ last' = Call("iter", NoArg, NoArg, "none", rect, Len(iters) + 1, "")
    /\ UNCHANGED <<rect, ctor>>

(* next(it) on the i-th generator. *)
Advance(i) ==
    /\ i \in 1..Len(iters)
    /\ Len(iters[i].trace) < MaxAdvance
    /\ LET r == gen_next(iters[i], rect) IN
        /\ iters' = [iters EXCEPT ![i] =
                        [pc |-> r.pc, trace |-> Append(@.trace, r.ev)]]
        /\ rect' = r.self
        /\ last' = Call("next", NoArg, NoArg,
                        IF r.ev.kind = "yield" THEN "none" ELSE r.ev.kind,
                        r.self, i, "")
    /\ UNCHANGED ctor

(* repr(rect). *)
Repr ==
    /\ bound
    /\ LET r == Rectangle_repr(rect) IN
        last' = Call("repr", NoArg, NoArg, r.raised, rect, 0, r.text)
    /\ UNCHANGED <<rect, ctor, iters>>

Next ==
    \/ \E l \in Values, w \in Values : Construct(l, w)
    \/ BeginIter
    \/ \E i \in 1..MaxIters : Advance(i)
    \/ Repr

Spec == Init /\ [][Next]_vars

(* ------------------------------ Properties ----------------------------- *)

IsInteger(v) == v.type \in {"int", "bool"}
IsPositive(v) == v.val > 0

Exhausted(g) == Len(g.trace) >= 3
YieldEvents(g) == SelectSeq(g.trace, LAMBDA e : e.kind = "yield")
Yielded(g) == [k \in 1..Len(YieldEvents(g)) |-> YieldEvents(g)[k].item]

Item(name, v) == [n \in {name} |-> v]

(* C1: for integers l > 0 and w > 0, Rectangle(l, w) raises nothing and     *)
(* stores l and w, and an iterator driven to exhaustion has yielded exactly *)
(* <<{"length": l}, {"width": w}>>, l and w being the constructor's         *)
(* arguments.                                                               *)
C1_ConstructThenIterate ==
    /\ (last.op = "init" /\ IsInteger(last.l) /\ IsInteger(last.w)
            /\ IsPositive(last.l) /\ IsPositive(last.w))
        => (last.raised = "none"
            /\ last.self = [length |-> last.l, width |-> last.w])
    /\ \A i \in 1..Len(iters) :
        Exhausted(iters[i])
            => Yielded(iters[i]) = <<Item("length", ctor[1]), Item("width", ctor[2])>>

C1_Witness ==
    /\ ctor = <<PyInt(2), PyInt(1)>>
    /\ Len(iters) >= 1
    /\ Exhausted(iters[1])
    /\ Len(Yielded(iters[1])) = 2

(* C2: with both arguments integers and at least one of them <= 0,          *)
(* construction raises ValueError and produces no instance.                 *)
C2_NonPositiveIsValueError ==
    (last.op = "init" /\ IsInteger(last.l) /\ IsInteger(last.w)
        /\ (~IsPositive(last.l) \/ ~IsPositive(last.w)))
    => (last.raised = "ValueError" /\ last.self = EmptyDict)

C2_Witness ==
    /\ last.op = "init"
    /\ last.l = PyInt(1)
    /\ last.w = PyInt(0)
    /\ last.raised = "ValueError"

(* C3: when an argument is not an integer, construction raises TypeError,   *)
(* also when the other argument is an integer <= 0.                         *)
C3_NonIntegerIsTypeError ==
    (last.op = "init" /\ (~IsInteger(last.l) \/ ~IsInteger(last.w)))
    => last.raised = "TypeError"

C3_Witness ==
    /\ last.op = "init"
    /\ last.l = PyInt(0)
    /\ last.w = PyFloat(1)
    /\ last.raised = "TypeError"

(* C4: an instance that exists holds an integer length > 0 and an integer   *)
(* width > 0, whatever operations have run since.                           *)
ValidInstance(self) ==
    /\ DOMAIN self = {"length", "width"}
    /\ IsInteger(self["length"]) /\ IsPositive(self["length"])
    /\ IsInteger(self["width"]) /\ IsPositive(self["width"])

C4_PositiveIntegerAttributes ==
    /\ bound => ValidInstance(rect)
    /\ (last.op = "init" /\ last.raised = "none") => ValidInstance(last.self)

C4_Witness ==
    /\ bound
    /\ last.op = "repr"
    /\ Len(iters) = MaxIters
    /\ \A i \in 1..Len(iters) : Exhausted(iters[i])

(* C5: traversals begun one after another on the same instance produce the  *)
(* same elements in the same order, whether or not an earlier traversal was *)
(* completed.                                                               *)
C5_Restartable ==
    \A i \in 1..Len(iters), j \in 1..Len(iters) :
        \A k \in 1..Len(iters[i].trace) :
            k <= Len(iters[j].trace) => iters[j].trace[k] = iters[i].trace[k]

C5_Witness ==
    /\ Len(iters) = 2
    /\ Len(iters[1].trace) = 1
    /\ Exhausted(iters[2])

(* C6: a traversal has exactly two elements: the first and second advance   *)
(* yield, the third and every later advance signal StopIteration, and an    *)
(* iterator can always be advanced.                                         *)
C6_FiniteLengthTwo ==
    \A i \in 1..Len(iters) :
        /\ \A k \in 1..Len(iters[i].trace) :
            iters[i].trace[k].kind = (IF k <= 2 THEN "yield" ELSE "StopIteration")
        /\ iters[i].pc \in {"start", "y1", "y2", "done"}
        /\ Len(iters[i].trace) < MaxAdvance => ENABLED Advance(i)

C6_Witness ==
    /\ Len(iters) >= 1
    /\ Len(iters[1].trace) >= 4
    /\ iters[1].trace[3].kind = "StopIteration"
    /\ iters[1].trace[4].kind = "StopIteration"

(* C7: beginning an iteration and advancing an iterator leave the           *)
(* instance's length and width as they were.                                *)
C7_IterationDoesNotMutate ==
    [][(BeginIter \/ \E i \in 1..MaxIters : Advance(i)) => rect' = rect]_vars

C7_Witness ==
    /\ last.op = "next"
    /\ last.raised = "StopIteration"
    /\ rect = [length |-> PyInt(1), width |-> PyInt(2)]

(* C8: iterating, advancing and repr never raise TypeError or ValueError.   *)
C8_ErrorsOnlyFromConstruction ==
    /\ last.op # "init" => last.raised \notin {"TypeError", "ValueError"}
    /\ \A i \in 1..Len(iters) : \A k \in 1..Len(iters[i].trace) :
        iters[i].trace[k].kind \notin {"TypeError", "ValueError"}

C8_Witness ==
    /\ last.op = "repr"
    /\ last.raised = "none"
    /\ last.text = "Rectangle(length=2, width=1)"
    /\ Len(iters) >= 1
    /\ iters[1].pc = "done"

(* C9: a construction that raises has stored neither attribute and gives    *)
(* the caller no instance.                                                  *)
C9_NoPartialConstruction ==
    [][(last'.op = "init" /\ last'.raised # "none")
        => (last'.self = EmptyDict /\ rect' = rect /\ ctor' = ctor)]_vars

C9_Witness ==
    /\ last.op = "init"
    /\ last.l = PyInt(2)
    /\ last.w = PyFloat(0)
    /\ last.raised = "TypeError"
    /\ ~bound

(* C10: with several iterators on one instance advanced in any order, an    *)
(* advance of one changes no other, and what it produces depends only on    *)
(* how often that iterator itself was advanced.                             *)
Expected(n, self) ==
    CASE n = 1 -> Yield(Item("length", self["length"]))
      [] n = 2 -> Yield(Item("width", self["width"]))
      [] OTHER -> Raise("StopIteration")

C10_NoSharedCursor ==
    [][\A i \in 1..Len(iters) :
        iters'[i] # iters[i]
        => /\ \A j \in 1..Len(iters) : j # i => iters'[j] = iters[j]
           /\ iters'[i].trace =
                Append(iters[i].trace, Expected(Len(iters[i].trace) + 1, rect))]_vars

C10_Witness ==
    /\ Len(iters) = 2
    /\ last.op = "next"
    /\ last.it = 1
    /\ iters[1].pc = "y1"
    /\ iters[2].pc = "y2"

====
